---- MODULE Spec2Model ----
(***************************************************************************)
(* A model of src/src/satcat.js: the SatCat class (an Array subclass), its *)
(* constructor, its ten filter methods and the promise chain of fromURL.  *)
(*                                                                         *)
(* JavaScript values are tagged records [t, v]:                            *)
(*   undefined, null, NaN           v is unused (0)                        *)
(*   string                         v is the sequence of its characters    *)
(*   number                         v is the value in tenths (2019 is      *)
(*                                  20190, 2019.5 is 20195), v >= 0        *)
(* A satellite record is a TLA+ record holding the fields it has; reading  *)
(* a field it lacks yields undefined, as a property read does.             *)
(***************************************************************************)
EXTENDS Integers, Sequences, FiniteSets

VARIABLES source, heap, outcome, promise

vars == <<source, heap, outcome, promise>>

----------------------------------------------------------------------------
(* JavaScript values *)

Undefined == [t |-> "undefined", v |-> 0]

Null == [t |-> "null", v |-> 0]

NaN == [t |-> "NaN", v |-> 0]

Str(s) == [t |-> "string", v |-> s]

\* the number whose value is n10 tenths
Tenths(n10) == [t |-> "number", v |-> n10]

\* the integer number i
Num(i) == Tenths(10 * i)

Digits == <<"0", "1", "2", "3", "4", "5", "6", "7", "8", "9">>

IsDigit(c) == \E d \in DOMAIN Digits : Digits[d] = c

DigitValue(c) == (CHOOSE d \in DOMAIN Digits : Digits[d] = c) - 1

\* the value of a sequence of digits read as a decimal numeral
DecimalValue(s) ==
  LET V[k \in 0..Len(s)] == IF k = 0 THEN 0 ELSE 10 * V[k - 1] + DigitValue(s[k])
  IN V[Len(s)]

AllDigits(s) == \A k \in DOMAIN s : IsDigit(s[k])

\* String.prototype.trim restricted to the space character
TrimString(s) ==
  LET nonSpace == {k \in DOMAIN s : s[k] # " "}
  IN IF nonSpace = {} THEN <<>>
     ELSE LET lo == CHOOSE k \in nonSpace : \A j \in nonSpace : k <= j
              hi == CHOOSE k \in nonSpace : \A j \in nonSpace : j <= k
          IN SubSeq(s, lo, hi)

\* StringToNumber: white space is trimmed, the empty string is 0, a decimal
\* literal (digits, optionally a point and one more digit) is its value, and
\* anything else is NaN.
StringToNumber(s) ==
  LET str == TrimString(s)
      n == Len(str)
  IN IF n = 0 THEN Num(0)
     ELSE IF AllDigits(str) THEN Num(DecimalValue(str))
     ELSE IF n >= 3 /\ str[n - 1] = "." /\ AllDigits(SubSeq(str, 1, n - 2)) /\ IsDigit(str[n])
       THEN Tenths(10 * DecimalValue(SubSeq(str, 1, n - 2)) + DigitValue(str[n]))
     ELSE NaN

\* Number(value): ToNumber
Number(value) ==
  CASE value.t = "undefined" -> NaN
    [] value.t = "null" -> Num(0)
    [] value.t = "string" -> StringToNumber(value.v)
    [] OTHER -> value

\* the decimal numeral of a natural number, as characters
NaturalToString(n) ==
  LET S[k \in 0..n] == IF k < 10 THEN <<Digits[k + 1]>>
                       ELSE Append(S[k \div 10], Digits[(k % 10) + 1])
  IN S[n]

\* Number::toString
NumberToString(n10) ==
  IF n10 % 10 = 0 THEN NaturalToString(n10 \div 10)
  ELSE NaturalToString(n10 \div 10) \o <<".", Digits[(n10 % 10) + 1]>>

\* ToString(value), the characters of the string
ToString(value) ==
  CASE value.t = "undefined" -> <<"u", "n", "d", "e", "f", "i", "n", "e", "d">>
    [] value.t = "null" -> <<"n", "u", "l", "l">>
    [] value.t = "NaN" -> <<"N", "a", "N">>
    [] value.t = "string" -> value.v
    [] OTHER -> NumberToString(value.v)

\* SameValueZero, the comparison Array.prototype.includes makes: no coercion,
\* and NaN equals NaN
SameValueZero(x, y) == x.t = y.t /\ x.v = y.v

\* Array.prototype.includes
ArrayIncludes(array, searchElement) ==
  \E k \in DOMAIN array : SameValueZero(array[k], searchElement)

\* x <= y on numbers: false when either side is NaN
LessEq(x, y) == x.t = "number" /\ y.t = "number" /\ x.v <= y.v

\* sat.FIELD
Get(sat, field) == IF field \in DOMAIN sat THEN sat[field] ELSE Undefined

----------------------------------------------------------------------------
(* Regular expressions: new RegExp(pattern, 'i') and RegExp.prototype.test *)
(* for patterns made of literal characters, an optional leading ^, an      *)
(* optional trailing $ and parentheses.                                    *)

LowerCase == <<"a", "b", "c", "d", "e", "f", "g", "h", "i", "j", "k", "l", "m",
               "n", "o", "p", "q", "r", "s", "t", "u", "v", "w", "x", "y", "z">>

UpperCase == <<"A", "B", "C", "D", "E", "F", "G", "H", "I", "J", "K", "L", "M",
               "N", "O", "P", "Q", "R", "S", "T", "U", "V", "W", "X", "Y", "Z">>

\* Canonicalize under the i flag: the character's upper case
Canonicalize(ch) ==
  IF \E k \in DOMAIN LowerCase : LowerCase[k] = ch
  THEN UpperCase[CHOOSE k \in DOMAIN LowerCase : LowerCase[k] = ch]
  ELSE ch

\* the nesting depth after each character; a pattern is well formed when the
\* depth never goes below zero and ends at zero
ParenDepth(pattern) ==
  [k \in 0..Len(pattern) |->
     Cardinality({j \in 1..k : pattern[j] = "("}) - Cardinality({j \in 1..k : pattern[j] = ")"})]

\* RegExpCreate, were the pattern's syntax never rejected
RegExpCreateLenient(pattern) ==
  LET n == Len(pattern)
      anchorStart == n >= 1 /\ pattern[1] = "^"
      anchorEnd == n >= 1 /\ pattern[n] = "$"
      inner == SubSeq(pattern, IF anchorStart THEN 2 ELSE 1, IF anchorEnd THEN n - 1 ELSE n)
  IN [error |-> "none", anchorStart |-> anchorStart, anchorEnd |-> anchorEnd,
      body |-> SelectSeq(inner, LAMBDA c : c \notin {"(", ")"})]

\* new RegExp(pattern, 'i'): a SyntaxError for unbalanced parentheses, else
\* the compiled expression: its anchors and the characters to match
RegExpCreate(pattern) ==
  LET depth == ParenDepth(pattern)
      n == Len(pattern)
      anchorStart == n >= 1 /\ pattern[1] = "^"
      anchorEnd == n >= 1 /\ pattern[n] = "$"
      inner == SubSeq(pattern, IF anchorStart THEN 2 ELSE 1, IF anchorEnd THEN n - 1 ELSE n)
  IN IF depth[n] # 0 \/ \E k \in 0..n : depth[k] < 0
     THEN [error |-> "SyntaxError"]
     ELSE [error |-> "none", anchorStart |-> anchorStart, anchorEnd |-> anchorEnd,
           body |-> SelectSeq(inner, LAMBDA c : c \notin {"(", ")"})]

\* regex.test(value): the value is converted to a string, and the expression
\* matches when its body occurs in it, at the anchored places, ignoring case
RegExpTest(regex, value) ==
  LET str == ToString(value)
      m == Len(regex.body)
      starts == IF regex.anchorStart THEN {0} ELSE 0..Len(str)
  IN \E i \in starts :
       /\ i + m <= Len(str)
       /\ regex.anchorEnd => i + m = Len(str)
       /\ \A j \in 1..m : Canonicalize(str[i + j]) = Canonicalize(regex.body[j])

----------------------------------------------------------------------------
(* Completions of a call *)

Return(value) == [error |-> "none", value |-> value]

Throw(error) == [error |-> error, value |-> <<>>]

----------------------------------------------------------------------------
(* class SatCat extends Array *)

\* satCatData.length: an array's or a string's length, a TypeError for null
\* and undefined, and undefined for anything else
LengthOf(satCatData) ==
  CASE satCatData.t \in {"array", "string"} -> Return(Num(Len(satCatData.v)))
    [] satCatData.t \in {"null", "undefined"} -> Throw("TypeError")
    [] OTHER -> Return(Undefined)

\* satCatData[i] (i from 0): an array's element, a string's character
ElementOf(satCatData, i) ==
  IF satCatData.t = "string" THEN Str(<<satCatData.v[i + 1]>>) ELSE satCatData.v[i + 1]

\* this.push(element)
Push(array, element) == Append(array, element)

\* new SatCat(satCatData): super() makes the empty array, then every element
\* of satCatData is pushed while i < satCatData.length
SatCat(satCatData) ==
  LET length == LengthOf(satCatData)
      n == IF length.error = "none" /\ length.value.t = "number"
           THEN length.value.v \div 10 ELSE 0
      This[i \in 0..n] == IF i = 0 THEN <<>> ELSE Push(This[i - 1], ElementOf(satCatData, i - 1))
  IN IF length.error # "none" THEN Throw(length.error) ELSE Return(This[n])

\* ArraySpeciesCreate(O, 0): Array.prototype.filter makes its result with the
\* receiver's constructor, new SatCat(0)
ArraySpeciesCreate == SatCat(Num(0)).value

\* CreateDataProperty, were the accepted element put at the front
CreateDataPropertyAtFront(A, kValue) == <<kValue>> \o A

\* CreateDataProperty, were only the first accepted element kept
CreateDataPropertyFirstOnly(A, kValue) == IF A = <<>> THEN <<kValue>> ELSE A

\* CreateDataPropertyOrThrow(A, to, kValue) with to the next index of A
CreateDataProperty(A, kValue) == Append(A, kValue)

\* Array.prototype.filter: the elements are visited in index order, and each
\* one the callback accepts is put at the end of the new array; callbackfn[k]
\* is what the callback returns for O[k]
ArrayFilter(O, callbackfn) ==
  LET A[k \in 0..Len(O)] ==
        IF k = 0 THEN ArraySpeciesCreate
        ELSE IF callbackfn[k] THEN CreateDataProperty(A[k - 1], O[k]) ELSE A[k - 1]
  IN A[Len(O)]

filterByTypes(this, objectTypes) ==
  Return(ArrayFilter(this, [k \in DOMAIN this |->
       LET sat == this[k] IN ArrayIncludes(objectTypes, Get(sat, "OBJECT_TYPE"))]))

filterByNamePattern(this, pattern) ==
  LET regex == RegExpCreate(pattern)
  IN IF regex.error # "none" THEN Throw(regex.error)
     ELSE Return(ArrayFilter(this, [k \in DOMAIN this |->
       LET sat == this[k] IN RegExpTest(regex, Get(sat, "SATNAME"))]))

filterByCountryCodes(this, countryCodes) ==
  Return(ArrayFilter(this, [k \in DOMAIN this |->
       LET sat == this[k] IN ArrayIncludes(countryCodes, Get(sat, "COUNTRY"))]))

filterByStillOnOrbit(this) ==
  Return(ArrayFilter(this, [k \in DOMAIN this |->
       LET sat == this[k] IN Get(sat, "DECAY").t = "null"]))

filterByLaunchYears(this, years) ==
  Return(ArrayFilter(this, [k \in DOMAIN this |->
       LET sat == this[k] IN ArrayIncludes(years, Number(Get(sat, "LAUNCH_YEAR")))]))

\* InLaunchYearRange, were the end year left out
InLaunchYearRangeExclusive(launchYear, startYear, endYear) ==
  LessEq(startYear, launchYear) /\ LessEq(launchYear, endYear) /\ launchYear # endYear

\* launchYear >= startYear && launchYear <= endYear
InLaunchYearRange(launchYear, startYear, endYear) ==
  LessEq(startYear, launchYear) /\ LessEq(launchYear, endYear)

filterByLaunchYearRange(this, startYear, endYear) ==
  Return(ArrayFilter(this, [k \in DOMAIN this |->
       LET sat == this[k] IN InLaunchYearRange(Number(Get(sat, "LAUNCH_YEAR")), startYear, endYear)]))

filterByMaxPerigee(this, maxPerigee) ==
  Return(ArrayFilter(this, [k \in DOMAIN this |->
       LET sat == this[k] IN LessEq(Number(Get(sat, "PERIGEE")), maxPerigee)]))

filterByMinApogee(this, minApogee) ==
  Return(ArrayFilter(this, [k \in DOMAIN this |->
       LET sat == this[k] IN LessEq(minApogee, Number(Get(sat, "APOGEE")))]))

filterByNoradIds(this, noradIds) ==
  Return(ArrayFilter(this, [k \in DOMAIN this |->
       LET sat == this[k] IN ArrayIncludes(noradIds, Get(sat, "NORAD_CAT_ID"))]))

filterByNoradIdPattern(this, pattern) ==
  LET regex == RegExpCreate(pattern)
  IN IF regex.error # "none" THEN Throw(regex.error)
     ELSE Return(ArrayFilter(this, [k \in DOMAIN this |->
       LET sat == this[k] IN RegExpTest(regex, Get(sat, "NORAD_CAT_ID"))]))

\* the methods the class body defines
SatCatMethods ==
  {"filterByTypes", "filterByNamePattern", "filterByCountryCodes", "filterByStillOnOrbit",
   "filterByLaunchYears", "filterByLaunchYearRange", "filterByMaxPerigee",
   "filterByMinApogee", "filterByNoradIds", "filterByNoradIdPattern"}

\* the method of the class named call.op, applied to this with call.args
Invoke(this, call) ==
  CASE call.op = "filterByTypes" -> filterByTypes(this, call.args)
    [] call.op = "filterByNamePattern" -> filterByNamePattern(this, call.args)
    [] call.op = "filterByCountryCodes" -> filterByCountryCodes(this, call.args)
    [] call.op = "filterByStillOnOrbit" -> filterByStillOnOrbit(this)
    [] call.op = "filterByLaunchYears" -> filterByLaunchYears(this, call.args)
    [] call.op = "filterByLaunchYearRange" ->
         filterByLaunchYearRange(this, call.args[1], call.args[2])
    [] call.op = "filterByMaxPerigee" -> filterByMaxPerigee(this, call.args)
    [] call.op = "filterByMinApogee" -> filterByMinApogee(this, call.args)
    [] call.op = "filterByNoradIds" -> filterByNoradIds(this, call.args)
    [] call.op = "filterByNoradIdPattern" -> filterByNoradIdPattern(this, call.args)

\* this[call.op](...call.args): calling a property the class does not define
\* calls undefined, a TypeError
CallMethod(this, call) ==
  IF call.op \in SatCatMethods THEN Invoke(this, call) ELSE Throw("TypeError")

----------------------------------------------------------------------------
(* The data the calls are made with *)

\* the longest array given to the constructor
MaxLen == 2

\* the most views a run makes: the loaded one and those the filters return
MaxViews == 3

PAYLOAD == Str(<<"P", "A", "Y", "L", "O", "A", "D">>)

DEBRIS == Str(<<"D", "E", "B", "R", "I", "S">>)

US == Str(<<"U", "S">>)

JP == Str(<<"J", "P">>)

\* a record whose fields are all strings, its launch year a fraction
ISS ==
  [OBJECT_TYPE |-> PAYLOAD, SATNAME |-> Str(<<"I", "S", "S">>), COUNTRY |-> US,
   DECAY |-> Null, LAUNCH_YEAR |-> Str(<<"2", "0", "1", "9", ".", "5">>),
   PERIGEE |-> Str(<<"4", "0", "0">>), APOGEE |-> Str(<<"5", "0", "0">>),
   NORAD_CAT_ID |-> Str(<<"2", "5", "5", "4", "4">>),
   INCLINATION |-> Str(<<"5", "1", ".", "6">>)]

\* a record whose numeric fields and identifier are stored as numbers
Fengyun ==
  [OBJECT_TYPE |-> DEBRIS, SATNAME |-> Str(<<"f", "y", " ", "d", "e", "b">>), COUNTRY |-> JP,
   DECAY |-> Str(<<"2", "0", "2", "1">>), LAUNCH_YEAR |-> Num(2020),
   PERIGEE |-> Num(200), APOGEE |-> Num(600), NORAD_CAT_ID |-> Num(25544)]

\* a record with missing, null, empty and non-numeric fields
Blank ==
  [OBJECT_TYPE |-> PAYLOAD, COUNTRY |-> JP, DECAY |-> Null,
   LAUNCH_YEAR |-> Str(<<"t", "b", "a">>), PERIGEE |-> Str(<<>>), APOGEE |-> Null,
   NORAD_CAT_ID |-> Null]

Records == {ISS, Fengyun, Blank}

\* a JavaScript array of the given elements
Array(elements) == [t |-> "array", v |-> elements]

Sources == UNION {[1..n -> Records] : n \in 0..MaxLen}

TypeLists == {<<PAYLOAD>>}

NamePatterns == {<<"^", "I", "s">>, <<"n">>, <<"(">>}

IdPatterns == {<<"5", "$">>, <<"n">>, <<"(">>}

CountryLists == {<<US>>}

YearLists == {<<Num(2019), Num(2020)>>}

YearRanges == {<<Num(2019), Num(2020)>>, <<Num(2020), Num(2021)>>}

Altitudes == {Num(500)}

NoradIdLists == {<<Str(<<"2", "5", "5", "4", "4">>), Str(<<"4", "0", "0", "0", "0">>)>>}

Inclinations == {<<Num(0), Num(60)>>}

----------------------------------------------------------------------------
(* Loading and filtering.  heap[i] is the view that is object i, and       *)
(* outcome is how the latest call completed.                               *)

NoPromise == [state |-> "none"]

Init ==
  /\ source \in {Array(elements) : elements \in Sources}
  /\ heap = <<SatCat(source).value>>
  /\ outcome = [this |-> 0, call |-> [op |-> "constructor", args |-> 0],
                error |-> "none", result |-> 1]
  /\ promise = NoPromise

\* Allocate, were filter to rewrite its receiver in place and return a copy
AllocateInPlace(objects, this, completion) ==
  IF completion.error = "none"
  THEN Append([objects EXCEPT ![this] = completion.value], completion.value)
  ELSE objects

\* the heap after a call on object this completed: a returned view is a new
\* object, and a call that throws makes none
Allocate(objects, this, completion) ==
  IF completion.error = "none" THEN Append(objects, completion.value) ELSE objects

\* heap[this][call.op](...call.args)
Step(this, call) ==
  LET completion == CallMethod(heap[this], call)
  IN /\ Len(heap) < MaxViews
     /\ heap' = Allocate(heap, this, completion)
     /\ outcome' = [this |-> this, call |-> call, error |-> completion.error,
                    result |-> IF completion.error = "none" THEN Len(heap) + 1 ELSE 0]
     /\ UNCHANGED <<source, promise>>

CallFilterByTypes ==
  \E this \in DOMAIN heap, objectTypes \in TypeLists :
    Step(this, [op |-> "filterByTypes", args |-> objectTypes])

CallFilterByNamePattern ==
  \E this \in DOMAIN heap, pattern \in NamePatterns :
    Step(this, [op |-> "filterByNamePattern", args |-> pattern])

CallFilterByCountryCodes ==
  \E this \in DOMAIN heap, countryCodes \in CountryLists :
    Step(this, [op |-> "filterByCountryCodes", args |-> countryCodes])

CallFilterByStillOnOrbit ==
  \E this \in DOMAIN heap : Step(this, [op |-> "filterByStillOnOrbit", args |-> 0])

CallFilterByLaunchYears ==
  \E this \in DOMAIN heap, years \in YearLists :
    Step(this, [op |-> "filterByLaunchYears", args |-> years])

CallFilterByLaunchYearRange ==
  \E this \in DOMAIN heap, range \in YearRanges :
    Step(this, [op |-> "filterByLaunchYearRange", args |-> range])

CallFilterByMaxPerigee ==
  \E this \in DOMAIN heap, maxPerigee \in Altitudes :
    Step(this, [op |-> "filterByMaxPerigee", args |-> maxPerigee])

CallFilterByMinApogee ==
  \E this \in DOMAIN heap, minApogee \in Altitudes :
    Step(this, [op |-> "filterByMinApogee", args |-> minApogee])

CallFilterByNoradIds ==
  \E this \in DOMAIN heap, noradIds \in NoradIdLists :
    Step(this, [op |-> "filterByNoradIds", args |-> noradIds])

CallFilterByNoradIdPattern ==
  \E this \in DOMAIN heap, pattern \in IdPatterns :
    Step(this, [op |-> "filterByNoradIdPattern", args |-> pattern])

\* the call the test suite makes
CallFilterByInclinationRange ==
  \E this \in DOMAIN heap, range \in Inclinations :
    Step(this, [op |-> "filterByInclinationRange", args |-> range])

Next ==
  \/ CallFilterByTypes
  \/ CallFilterByNamePattern
  \/ CallFilterByCountryCodes
  \/ CallFilterByStillOnOrbit
  \/ CallFilterByLaunchYears
  \/ CallFilterByLaunchYearRange
  \/ CallFilterByMaxPerigee
  \/ CallFilterByMinApogee
  \/ CallFilterByNoradIds
  \/ CallFilterByNoradIdPattern
  \/ CallFilterByInclinationRange

Spec == Init /\ [][Next]_vars

----------------------------------------------------------------------------
(* SatCat.fromURL(url): fetch(url), then response.json(), then new SatCat  *)
(* of the decoded data.  A response is its status and its body: either     *)
(* text that is not JSON, or the JSON value the text denotes.              *)

Urls == {"celestrak", "mirror"}

Malformed == [t |-> "malformed", v |-> 0]

\* a JSON object without a length member
Object == [t |-> "object", v |-> 0]

Bodies ==
  {Malformed, Null, Object, Num(5), Str(<<"a", "b">>)} \cup {Array(elements) : elements \in Sources}

Responses == [status : {200, 404}, body : Bodies]

\* response.json(): a SyntaxError unless the body is JSON text; the status is
\* not looked at
ResponseJson(response) ==
  IF response.body.t = "malformed" THEN Throw("SyntaxError") ELSE Return(response.body)

InitURL ==
  /\ source = Undefined
  /\ heap = <<>>
  /\ outcome = [this |-> 0, call |-> [op |-> "none", args |-> 0], error |-> "none", result |-> 0]
  /\ promise = NoPromise

\* fetch(url) is called
FromURL ==
  /\ promise.state = "none"
  /\ \E url \in Urls : promise' = [state |-> "fetching", url |-> url]
  /\ UNCHANGED <<source, heap, outcome>>

\* the request fails: both then-callbacks are skipped
FetchRejects ==
  /\ promise.state = "fetching"
  /\ promise' = [state |-> "rejected", url |-> promise.url, error |-> "TypeError"]
  /\ UNCHANGED <<source, heap, outcome>>

\* the server answers, with any status
FetchResolves ==
  /\ promise.state = "fetching"
  /\ \E response \in Responses :
       promise' = [state |-> "response", url |-> promise.url, response |-> response]
  /\ UNCHANGED <<source, heap, outcome>>

\* .then((response) => response.json())
ThenJson ==
  /\ promise.state = "response"
  /\ LET data == ResponseJson(promise.response)
     IN promise' = IF data.error # "none"
                   THEN [state |-> "rejected", url |-> promise.url, error |-> data.error,
                         response |-> promise.response]
                   ELSE [state |-> "data", url |-> promise.url, data |-> data.value,
                         response |-> promise.response]
  /\ UNCHANGED <<source, heap, outcome>>

\* .then((data) => new SatCat(data))
ThenSatCat ==
  /\ promise.state = "data"
  /\ LET created == SatCat(promise.data)
     IN /\ promise' = IF created.error # "none"
                      THEN [state |-> "rejected", url |-> promise.url, error |-> created.error,
                            response |-> promise.response]
                      ELSE [state |-> "fulfilled", url |-> promise.url, value |-> 1,
                            response |-> promise.response]
        /\ heap' = IF created.error # "none" THEN heap ELSE <<created.value>>
  /\ source' = promise.data
  /\ UNCHANGED outcome

NextURL == FromURL \/ FetchRejects \/ FetchResolves \/ ThenJson \/ ThenSatCat

SpecURL == InitURL /\ [][NextURL]_vars

----------------------------------------------------------------------------
(* The claims *)

Returned == outcome.error = "none" /\ outcome.this > 0

\* the view the latest call was made on, and the view it returned
Receiver == heap[outcome.this]

Result == heap[outcome.result]

PatternOps == {"filterByNamePattern", "filterByNoradIdPattern"}

\* a pattern that is not regular-expression syntax: an unterminated group
InvalidPatterns == {<<"(">>}

\* start <= x <= end on numbers
Between(start, x, end) == LessEq(start, x) /\ LessEq(x, end)

\* the predicate each operation is documented to select by
Satisfies(sat, call) ==
  CASE call.op = "filterByTypes" -> ArrayIncludes(call.args, Get(sat, "OBJECT_TYPE"))
    [] call.op = "filterByNamePattern" ->
         RegExpTest(RegExpCreate(call.args), Get(sat, "SATNAME"))
    [] call.op = "filterByCountryCodes" -> ArrayIncludes(call.args, Get(sat, "COUNTRY"))
    [] call.op = "filterByStillOnOrbit" -> Get(sat, "DECAY") = Null
    [] call.op = "filterByLaunchYears" ->
         ArrayIncludes(call.args, Number(Get(sat, "LAUNCH_YEAR")))
    [] call.op = "filterByLaunchYearRange" ->
         Between(call.args[1], Number(Get(sat, "LAUNCH_YEAR")), call.args[2])
    [] call.op = "filterByMaxPerigee" -> LessEq(Number(Get(sat, "PERIGEE")), call.args)
    [] call.op = "filterByMinApogee" -> LessEq(call.args, Number(Get(sat, "APOGEE")))
    [] call.op = "filterByNoradIds" -> ArrayIncludes(call.args, Get(sat, "NORAD_CAT_ID"))
    [] call.op = "filterByNoradIdPattern" ->
         RegExpTest(RegExpCreate(call.args), Get(sat, "NORAD_CAT_ID"))

\* C1: after any chain of filter calls, the view a filter returns holds
\* exactly the records of its receiver that satisfy the operation's
\* predicate, each as often as in the receiver and in the receiver's order;
\* it is no longer than the receiver, and a filter with a well-formed
\* argument returns, also when nothing matches.
C1_ExactSubsequence ==
  outcome.call.op \in SatCatMethods =>
    /\ Returned =>
         /\ Result = SelectSeq(Receiver, LAMBDA sat : Satisfies(sat, outcome.call))
         /\ Len(Result) <= Len(Receiver)
    /\ ~(outcome.call.op \in PatternOps /\ outcome.call.args \in InvalidPatterns) => Returned

\* a call on a derived view returned two different records
C1_Witness ==
  /\ outcome.call.op \in SatCatMethods
  /\ Returned
  /\ outcome.this > 1
  /\ Len(Result) = 2
  /\ Result[1] # Result[2]

\* C2: a filter call changes neither the array given to the constructor nor
\* any view that exists, the receiver included, and the view it returns is an
\* object that did not exist before.
C2_NothingMutated ==
  [][/\ source' = source
     /\ \A i \in DOMAIN heap : i \in DOMAIN heap' /\ heap'[i] = heap[i]
     /\ outcome'.error = "none" =>
          outcome'.result \notin DOMAIN heap /\ outcome'.result # outcome'.this]_vars

\* a call on a derived view dropped a record, after the call that derived it
\* had dropped one too
C2_Witness ==
  /\ Returned
  /\ outcome.this > 1
  /\ Len(Result) < Len(Receiver)
  /\ Len(Receiver) < Len(heap[1])

\* a field that is absent, null, the empty string or a string that is no numeral
NonNumericField(value) ==
  \/ value.t \in {"undefined", "null"}
  \/ /\ value.t = "string"
     /\ \/ value.v = <<>>
        \/ \E k \in DOMAIN value.v : ~IsDigit(value.v[k]) /\ value.v[k] \notin {".", " "}

\* the field a numeric range filter reads
RangeField(op) ==
  CASE op = "filterByLaunchYearRange" -> "LAUNCH_YEAR"
    [] op = "filterByMaxPerigee" -> "PERIGEE"
    [] op = "filterByMinApogee" -> "APOGEE"

\* C3: filterByLaunchYearRange, filterByMaxPerigee and filterByMinApogee
\* never keep a record whose LAUNCH_YEAR, PERIGEE or APOGEE respectively is
\* absent, null, the empty string or a non-numeric string.
C3_NonNumericExcluded ==
  (Returned /\ outcome.call.op \in {"filterByLaunchYearRange", "filterByMaxPerigee",
                                    "filterByMinApogee"}) =>
    \A k \in DOMAIN Result : ~NonNumericField(Get(Result[k], RangeField(outcome.call.op)))

\* the identifier, stored as a string or as a number, equals a member of ids
\* as a string
IdEqualsAsString(sat, ids) ==
  LET id == Get(sat, "NORAD_CAT_ID")
  IN /\ id.t \in {"string", "number"}
     /\ \E k \in DOMAIN ids : ids[k].t = "string" /\ ids[k].v = ToString(id)

\* C4: filterByNoradIds(ids), ids strings, returns exactly the records whose
\* NORAD_CAT_ID, stored as a string or as a number, equals a member of ids
\* as a string, in the view's order.
C4_IdsByStringEquality ==
  (Returned /\ outcome.call.op = "filterByNoradIds") =>
    Result = SelectSeq(Receiver, LAMBDA sat : IdEqualsAsString(sat, outcome.call.args))

\* C5: the promise fromURL returns is fulfilled only when the resource was
\* found and the decoded body is an array of records.
C5_FulfilledOnlyForFoundArray ==
  promise.state = "fulfilled" =>
    promise.response.status = 200 /\ promise.response.body.t = "array"

\* C6: filterByInclinationRange(min, max) returns the view of exactly the
\* records with min <= numeric(INCLINATION) <= max, in the receiver's order.
C6_InclinationRange ==
  outcome.call.op = "filterByInclinationRange" =>
    /\ Returned
    /\ Result = SelectSeq(Receiver, LAMBDA sat :
                  Between(outcome.call.args[1], Number(Get(sat, "INCLINATION")),
                          outcome.call.args[2]))

\* C7: a pattern filter called with a pattern that is not regular-expression
\* syntax throws a SyntaxError on every view, the empty one included; it
\* returns no view and leaves every view as it was.
C7_InvalidPatternThrows ==
  [][(outcome'.call.op \in PatternOps /\ outcome'.call.args \in InvalidPatterns) =>
       /\ outcome'.error = "SyntaxError"
       /\ outcome'.result = 0
       /\ heap' = heap]_vars

\* both pattern filters threw, one of them on an empty view
C7_Witness ==
  /\ outcome.call.op = "filterByNoradIdPattern"
  /\ outcome.call.args \in InvalidPatterns
  /\ outcome.error = "SyntaxError"
  /\ Receiver = <<>>
  /\ outcome.this > 1

\* the field a pattern filter reads
PatternField(op) ==
  IF op = "filterByNamePattern" THEN "SATNAME" ELSE "NORAD_CAT_ID"

\* C8: filterByNamePattern never keeps a record whose SATNAME is absent or
\* null, and filterByNoradIdPattern never one whose NORAD_CAT_ID is.
C8_MissingFieldNeverMatches ==
  (Returned /\ outcome.call.op \in PatternOps) =>
    \A k \in DOMAIN Result :
      Get(Result[k], PatternField(outcome.call.op)).t \notin {"undefined", "null"}

\* every call of the ten operations that the model makes
Calls ==
  {[op |-> "filterByTypes", args |-> a] : a \in TypeLists}
  \cup {[op |-> "filterByNamePattern", args |-> a] : a \in NamePatterns}
  \cup {[op |-> "filterByCountryCodes", args |-> a] : a \in CountryLists}
  \cup {[op |-> "filterByStillOnOrbit", args |-> 0]}
  \cup {[op |-> "filterByLaunchYears", args |-> a] : a \in YearLists}
  \cup {[op |-> "filterByLaunchYearRange", args |-> a] : a \in YearRanges}
  \cup {[op |-> "filterByMaxPerigee", args |-> a] : a \in Altitudes}
  \cup {[op |-> "filterByMinApogee", args |-> a] : a \in Altitudes}
  \cup {[op |-> "filterByNoradIds", args |-> a] : a \in NoradIdLists}
  \cup {[op |-> "filterByNoradIdPattern", args |-> a] : a \in IdPatterns}

\* the calls that return a view
ReturningCalls == {call \in Calls : Invoke(<<>>, call).error = "none"}

\* C9: when B was called on a view and A is called on what B returned, the
\* result is as long as that of calling A on the view and B on what A
\* returned, for every two operations and arguments.
C9_Commutative ==
  (Returned /\ outcome.call.op \in SatCatMethods) =>
    \A callA \in ReturningCalls :
      Len(Invoke(Result, callA).value)
        = Len(Invoke(Invoke(Receiver, callA).value, outcome.call).value)

\* B kept one of two records and A keeps the other one
C9_Witness ==
  /\ Returned
  /\ outcome.call.op \in SatCatMethods
  /\ Len(Receiver) = 2
  /\ Len(Result) = 1
  /\ \E callA \in ReturningCalls :
       /\ Len(Invoke(Receiver, callA).value) = 1
       /\ Invoke(Receiver, callA).value # Result
       /\ Invoke(Result, callA).value = <<>>

\* the integers from start to end, as an array of numbers
IntegersFromTo(start, end) ==
  [k \in 1..((end.v - start.v) \div 10 + 1) |-> Num(start.v \div 10 + k - 1)]

\* a launch year that is integer-valued once coerced, or does not coerce
IntegerOrNaN(value) ==
  LET launchYear == Number(value)
  IN launchYear.t = "NaN" \/ (launchYear.t = "number" /\ launchYear.v % 10 = 0)

\* C10: on a view whose launch years are integer-valued or not numbers,
\* filterByLaunchYearRange(start, end) returns the records, in the order,
\* that filterByLaunchYears returns for the list of the integers from start
\* to end.
C10_RangeIsYearList ==
  (/\ Returned
   /\ outcome.call.op = "filterByLaunchYearRange"
   /\ \A k \in DOMAIN Receiver : IntegerOrNaN(Get(Receiver[k], "LAUNCH_YEAR"))) =>
    Result = filterByLaunchYears(Receiver,
               IntegersFromTo(outcome.call.args[1], outcome.call.args[2])).value

\* the range kept a record launched in its end year and dropped one whose
\* launch year is not a number
C10_Witness ==
  /\ Returned
  /\ outcome.call.op = "filterByLaunchYearRange"
  /\ \E k \in DOMAIN Result : Number(Get(Result[k], "LAUNCH_YEAR")) = outcome.call.args[2]
  /\ \E k \in DOMAIN Receiver : Number(Get(Receiver[k], "LAUNCH_YEAR")) = NaN

====
